---------------------------- MODULE Spec2Model ----------------------------
(***************************************************************************)
(* A model of GhgMAC (objects/emissions/source/ghg_mac.cpp): the marginal  *)
(* abatement cost curve of a greenhouse gas, its XML configuration and the *)
(* reduction query findReduction with its adjustments (shiftNatGas,        *)
(* shiftCostReduction, getMACValue, adjustPhaseIn, adjustTechCh).          *)
(*                                                                         *)
(* C++ doubles are modelled as exact rationals extended with the values    *)
(* the code distinguishes: NaN, +/-infinity and +/-DBL_MAX.  Rounding of   *)
(* ordinary values is not modelled (0.7 is the rational 7/10).             *)
(***************************************************************************)
EXTENDS Integers, Sequences, FiniteSets, TLC

(***************************************************************************)
(* double: a value c * DBL_MAX^e with c = n/d a rational in lowest terms   *)
(* and e in {-1, 0, 1}, or an infinity (n is its sign), or NaN.  DBL_MAX   *)
(* is larger than every ordinary value, so a sum is absorbed by the        *)
(* operand of the higher order, DBL_MAX + DBL_MAX overflows to infinity    *)
(* and x / infinity is 0.  Zero is unsigned.                               *)
(***************************************************************************)
RECURSIVE GCD(_, _)
GCD(a, b) == IF b = 0 THEN a ELSE GCD(b, a % b)

Abs(i) == IF i < 0 THEN -i ELSE i

Sgn(i) == IF i < 0 THEN -1 ELSE IF i > 0 THEN 1 ELSE 0

NaN == [k |-> "nan", n |-> 0, d |-> 1, e |-> 0]

Inf(s) == [k |-> "inf", n |-> s, d |-> 1, e |-> 0]

\* The double n/d * DBL_MAX^e (d # 0), with overflow and underflow applied.
Make(n, d, e) ==
    LET g == GCD(Abs(n), Abs(d))
        nn == Sgn(d) * (n \div g)
        dd == Abs(d) \div g
    IN  IF n = 0 THEN [k |-> "num", n |-> 0, d |-> 1, e |-> 0]
        ELSE IF e >= 2 \/ (e = 1 /\ Abs(nn) > dd) THEN Inf(Sgn(nn))
        ELSE IF e <= -2 THEN [k |-> "num", n |-> 0, d |-> 1, e |-> 0]
        ELSE [k |-> "num", n |-> nn, d |-> dd, e |-> e]

\* The double n/d.
R(n, d) == Make(n, d, 0)

\* An int converted to double.
I(n) == Make(n, 1, 0)

DBL_MAX == Make(1, 1, 1)

NEG_DBL_MAX == Make(-1, 1, 1)

IsNaN(a) == a.k = "nan"

IsFinite(a) == a.k = "num"

IsZero(a) == a.k = "num" /\ a.n = 0

dNeg(a) == IF a.k = "nan" THEN NaN ELSE [a EXCEPT !.n = -a.n]

\* a + b
dAdd(a, b) ==
    IF IsNaN(a) \/ IsNaN(b) THEN NaN
    ELSE IF a.k = "inf" /\ b.k = "inf" THEN (IF a.n = b.n THEN a ELSE NaN)
    ELSE IF a.k = "inf" THEN a
    ELSE IF b.k = "inf" THEN b
    ELSE IF a.e = b.e THEN
            LET g == GCD(a.d, b.d)
            IN  Make(a.n * (b.d \div g) + b.n * (a.d \div g), (a.d \div g) * b.d, a.e)
    ELSE IF IsZero(a) THEN b
    ELSE IF IsZero(b) THEN a
    ELSE IF a.e > b.e THEN a ELSE b

\* a - b
dSub(a, b) == dAdd(a, dNeg(b))

\* a * b
dMul(a, b) ==
    IF IsNaN(a) \/ IsNaN(b) THEN NaN
    ELSE IF a.k = "inf" \/ b.k = "inf" THEN
            (IF IsZero(a) \/ IsZero(b) THEN NaN ELSE Inf(Sgn(a.n) * Sgn(b.n)))
    ELSE LET g1 == GCD(Abs(a.n), b.d)
             g2 == GCD(Abs(b.n), a.d)
         IN  IF a.n = 0 \/ b.n = 0 THEN I(0)
             ELSE Make((a.n \div g1) * (b.n \div g2),
                       (a.d \div g2) * (b.d \div g1), a.e + b.e)

\* a / b
dDiv(a, b) ==
    IF IsNaN(a) \/ IsNaN(b) THEN NaN
    ELSE IF a.k = "inf" THEN
            (IF b.k = "inf" THEN NaN
             ELSE Inf(a.n * (IF b.n < 0 THEN -1 ELSE 1)))
    ELSE IF b.k = "inf" THEN I(0)
    ELSE IF b.n = 0 THEN (IF a.n = 0 THEN NaN ELSE Inf(Sgn(a.n)))
    ELSE dMul(a, [k |-> "num", n |-> Sgn(b.n) * b.d, d |-> Abs(b.n), e |-> -b.e])

\* a < b (false when either is NaN)
dLt(a, b) ==
    IF IsNaN(a) \/ IsNaN(b) THEN FALSE
    ELSE IF a.k = "inf" \/ b.k = "inf" THEN
            /\ a # b
            /\ \/ (a.k = "inf" /\ a.n < 0)
               \/ (b.k = "inf" /\ b.n > 0)
    ELSE IF a.e = b.e THEN
            LET g == GCD(a.d, b.d)
            IN  a.n * (b.d \div g) < b.n * (a.d \div g)
    ELSE IF a.e > b.e THEN (IF a.n # 0 THEN a.n < 0 ELSE b.n > 0)
    ELSE (IF b.n # 0 THEN b.n > 0 ELSE a.n < 0)

\* a == b
dEq(a, b) == ~IsNaN(a) /\ ~IsNaN(b) /\ a = b

\* a <= b
dLe(a, b) == dLt(a, b) \/ dEq(a, b)

\* std::min(a, b): (b < a) ? b : a
dMin(a, b) == IF dLt(b, a) THEN b ELSE a

\* std::max(a, b): (a < b) ? b : a
dMax(a, b) == IF dLt(a, b) THEN b ELSE a

\* pow(base, n) for an int exponent n >= 0
RECURSIVE dPow(_, _)
dPow(base, n) == IF n = 0 THEN I(1) ELSE dMul(base, dPow(base, n - 1))

\* C++ int division a / b for b # 0: the quotient truncated towards zero.
IntDiv(a, b) == Sgn(a) * Sgn(b) * (Abs(a) \div Abs(b))

(***************************************************************************)
(* The model calendar (Modeltime).  Periods are 0..MaxPeriod, TimeStep     *)
(* years apart; period BasePeriod is the base period.                      *)
(***************************************************************************)
MaxPeriod == 3

StartYear == 1990

TimeStep == 5

BasePeriod == 1

Periods == 0..MaxPeriod

getBasePeriod == BasePeriod

\* Modeltime::getper_to_yr: the calendar year of a model period.  For an
\* argument that is no model period the result is not specified:
\* `unspecified` is the value the call produces then.
getper_to_yr(period, unspecified) ==
    IF period \in Periods THEN StartYear + TimeStep * period ELSE unspecified

getEndYear == getper_to_yr(MaxPeriod, 0)

\* Modeltime::getyr_to_per: the model period of a calendar year (the period
\* whose year is the first at or after it).
getyr_to_per(year) ==
    IF year <= StartYear THEN 0
    ELSE IF year >= getEndYear THEN MaxPeriod
    ELSE (year - StartYear + TimeStep - 1) \div TimeStep

\* The values a getper_to_yr call may produce for a non-period argument,
\* one of each kind findReduction and adjustTechCh tell apart: not above 1,
\* 2, 3, and above 3.
UnspecifiedYears == {1, 2, 3, 4}

(***************************************************************************)
(* Marketplace: the price of a market with no price.                       *)
(***************************************************************************)
NO_MARKET_PRICE == I(-1)

(***************************************************************************)
(* The object: GhgMAC's data members.  macCurve is the curve's points as   *)
(* (x, y) pairs sorted by x (PointSetCurve over an ExplicitPointSet), or   *)
(* NoCurve while the auto_ptr is null.  lastCall is the call of a member   *)
(* function the caller has made and not yet taken the result of: its       *)
(* arguments, the prices the marketplace gave it, the value it returned    *)
(* and what it wrote to the main log; NoCall between calls.                *)
(***************************************************************************)
VARIABLES macCurve, phaseIn, costReductionRate, baseCostYear, fuelShiftRange,
          curveShiftFuelName, finalReduction, finalReductionYear, noBelowZero,
          lastCall

vars == <<macCurve, phaseIn, costReductionRate, baseCostYear, fuelShiftRange,
          curveShiftFuelName, finalReduction, finalReductionYear, noBelowZero,
          lastCall>>

members == <<macCurve, phaseIn, costReductionRate, baseCostYear, fuelShiftRange,
             curveShiftFuelName, finalReduction, finalReductionYear, noBelowZero>>

NoCurve == <<[x |-> NaN, y |-> NaN]>>

XYDataPoint(xv, yv) == [x |-> xv, y |-> yv]

\* ExplicitPointSet::addPoint, as the curve reads the set: sorted by x.
RECURSIVE addPoint(_, _)
addPoint(points, p) ==
    IF points = <<>> THEN <<p>>
    ELSE IF dLt(p.x, Head(points).x) THEN <<p>> \o points
    ELSE <<Head(points)>> \o addPoint(Tail(points), p)

\* Curve::getMaxX: -DBL_MAX for a curve with no points.
getMaxX(curve) == IF curve = <<>> THEN NEG_DBL_MAX ELSE curve[Len(curve)].x

\* Curve::getMinX: DBL_MAX for a curve with no points.
getMinX(curve) == IF curve = <<>> THEN DBL_MAX ELSE curve[1].x

\* Curve::getY: the y of a point at xValue, else the linear interpolation
\* between the points around it (beyond the ends, along the nearest
\* segment), else the failure value -DBL_MAX.
getY(curve, xValue) ==
    IF \E i \in 1..Len(curve) : dEq(curve[i].x, xValue)
    THEN curve[CHOOSE i \in 1..Len(curve) : dEq(curve[i].x, xValue)].y
    ELSE IF Len(curve) < 2 THEN NEG_DBL_MAX
    ELSE LET inside(i) == dLt(curve[i].x, xValue) /\ dLt(xValue, curve[i + 1].x)
             seg == IF \E i \in 1..(Len(curve) - 1) : inside(i)
                    THEN CHOOSE i \in 1..(Len(curve) - 1) : inside(i)
                    ELSE IF dLt(curve[Len(curve)].x, xValue) THEN Len(curve) - 1
                    ELSE 1
             p0 == curve[seg]
             p1 == curve[seg + 1]
         IN  dAdd(p0.y, dDiv(dMul(dSub(p1.y, p0.y), dSub(xValue, p0.x)),
                             dSub(p1.x, p0.x)))

(***************************************************************************)
(* The member functions that compute.                                      *)
(***************************************************************************)

\* A getMACValue that queries the curve at the price itself.
getMACValue_unclamped(carbonPrice) ==
    LET reduction == getY(macCurve, carbonPrice)
    IN  IF dEq(reduction, NEG_DBL_MAX) THEN I(0) ELSE reduction

\* GhgMAC::getMACValue: the curve's value at min(carbonPrice, max x); 0
\* when the curve reports its failure value.
getMACValue(carbonPrice) ==
    LET maxCO2Tax == getMaxX(macCurve)
        effectiveCarbonPrice == dMin(carbonPrice, maxCO2Tax)
        reduction == getY(macCurve, effectiveCarbonPrice)
    IN  IF dEq(reduction, NEG_DBL_MAX) THEN I(0) ELSE reduction

\* Whether getMACValue( carbonPrice ) writes its ERROR message to the log.
getMACValueError(carbonPrice) ==
    dEq(getY(macCurve, dMin(carbonPrice, getMaxX(macCurve))), NEG_DBL_MAX)

\* An adjustPhaseIn that counts the periods from 0 instead of from the
\* base period.
adjustPhaseIn_fromZero(period) ==
    IF dLt(I(period), phaseIn) /\ dLe(I(1), phaseIn)
    THEN dDiv(I(period), phaseIn)
    ELSE I(1)

\* GhgMAC::adjustPhaseIn
adjustPhaseIn(period) ==
    IF dLt(I(period - 1), phaseIn) /\ dLe(I(1), phaseIn)
    THEN dDiv(I(period - 1), phaseIn)
    ELSE I(1)

\* GhgMAC::adjustTechCh.  1 / ( finalReductionPeriod - 2 ) is an int
\* division; with a zero divisor its behaviour is undefined: the call
\* traps (`trap`), or the division yields 0 and the call goes on.
adjustTechCh(period, finalReductionPeriod, maxReduction, trap) ==
    LET change == dDiv(maxReduction, finalReduction)
        divisor == finalReductionPeriod - 2
    IN  IF period <= finalReductionPeriod
        THEN IF divisor = 0
             THEN [fault |-> trap,
                   val |-> dMul(dMul(change, I(0)), I(period - 2))]
             ELSE [fault |-> FALSE,
                   val |-> dMul(dMul(change, I(IntDiv(1, divisor))), I(period - 2))]
        ELSE [fault |-> FALSE, val |-> change]

\* const double NORM_FACTOR = 3 / 5: an int division.
NORM_FACTOR == I(IntDiv(3, 5))

\* GhgMAC::shiftNatGas, given the prices the marketplace returns for
\* curveShiftFuelName at `period` and at period 1.
shiftNatGas(period, carbonPrice, natGasPrice, natGasBasePrice) ==
    LET priceChangeRatio == IF ~dEq(natGasPrice, I(0))
                            THEN dDiv(natGasBasePrice, natGasPrice)
                            ELSE I(1)
        minCarbonPrice == getMinX(macCurve)
        maxCarbonPrice == getMaxX(macCurve)
        convergenceFactor ==
            dAdd(I(IntDiv(1, 2)),
                 dMul(I(IntDiv(1, 2)),
                      dDiv(dSub(maxCarbonPrice, carbonPrice),
                           dSub(maxCarbonPrice, minCarbonPrice))))
        newCarbonPrice ==
            dAdd(carbonPrice,
                 dMul(dMul(dMul(NORM_FACTOR, dSub(I(1), priceChangeRatio)),
                           fuelShiftRange),
                      convergenceFactor))
    IN  dMin(dMax(newCarbonPrice, minCarbonPrice), maxCarbonPrice)

\* shiftCostReduction counting model periods since the base period instead
\* of years since baseCostYear.
shiftCostReduction_perPeriod(period, aCostReductionRate) ==
    IF ~dEq(aCostReductionRate, I(0))
    THEN LET numberYears == period - getBasePeriod
         IN  IF numberYears > 0
             THEN dDiv(I(1), dPow(dAdd(I(1), aCostReductionRate), numberYears))
             ELSE I(1)
    ELSE I(1)

\* GhgMAC::shiftCostReduction
shiftCostReduction(period, aCostReductionRate) ==
    IF ~dEq(aCostReductionRate, I(0))
    THEN LET numberYears == getper_to_yr(period, 0) - baseCostYear
         IN  IF numberYears > 0
             THEN dDiv(I(1), dPow(dAdd(I(1), aCostReductionRate), numberYears))
             ELSE I(1)
    ELSE I(1)

\* findReduction: the CO2 price read from the marketplace, 0 when the
\* market has no price.
marketCarbonPrice(marketPrice) ==
    IF dEq(marketPrice, NO_MARKET_PRICE) THEN I(0) ELSE marketPrice

\* findReduction: the fuel shift, performed when fuelShiftRange is not 0.
shiftedCarbonPrice(period, carbonPrice, natGasPrice, natGasBasePrice) ==
    IF ~dEq(fuelShiftRange, I(0))
    THEN shiftNatGas(period, carbonPrice, natGasPrice, natGasBasePrice)
    ELSE carbonPrice

\* findReduction: effectiveCarbonPrice *= shiftCostReduction( ... )
decayedCarbonPrice(period, carbonPrice) ==
    dMul(carbonPrice, shiftCostReduction(period, costReductionRate))

\* findReduction: if ( noBelowZero && effectiveCarbonPrice < 0 ) reduction = 0
clampBelowZero(reduction, effectiveCarbonPrice) ==
    IF noBelowZero /\ dLt(effectiveCarbonPrice, I(0)) THEN I(0) ELSE reduction

\* A findReduction that leaves the phase-in multiplier out.
phaseInReduction_skipped(reduction, period) == reduction

\* findReduction: reduction *= adjustPhaseIn( period )
phaseInReduction(reduction, period) == dMul(reduction, adjustPhaseIn(period))

\* findReduction: the period the final reduction is reached in.
finalReductionPeriodOf(year, unspecified) == getper_to_yr(year, unspecified)

\* findReduction: the condition under which adjustTechCh is applied.
techChangeApplies(maxReduction, finalReductionPeriod) ==
    dLt(maxReduction, finalReduction) /\ finalReductionPeriod > 1

\* GhgMAC::findReduction, given the CO2 price and the fuel prices the
\* marketplace returns.  The record holds the returned value (ret, unless
\* the call faults) and the locals the function computes on the way:
\* the price is substituted, shifted and decayed, the curve is looked up,
\* and the reduction is clamped, phased in and capped.
findReduction(period, marketPrice, natGasPrice, natGasBasePrice, unspecified, trap) ==
    LET adjust(price0, price1, effectiveCarbonPrice, looked, maxReduction,
               finalReductionPeriod) ==
            LET clamped == clampBelowZero(looked, effectiveCarbonPrice)
                phased == phaseInReduction(clamped, period)
                capped == techChangeApplies(maxReduction, finalReductionPeriod)
                tech == adjustTechCh(period, finalReductionPeriod, maxReduction, trap)
            IN  [fault |-> capped /\ tech.fault,
                 ret |-> IF capped THEN dMul(phased, tech.val) ELSE phased,
                 carbonPrice |-> price0,
                 shiftedPrice |-> price1,
                 effectiveCarbonPrice |-> effectiveCarbonPrice,
                 looked |-> looked,
                 reduction |-> clamped,
                 maxReduction |-> maxReduction,
                 finalReductionPeriod |-> finalReductionPeriod,
                 capApplied |-> capped,
                 errors |-> (IF getMACValueError(effectiveCarbonPrice) THEN 1 ELSE 0)
                            + (IF getMACValueError(getMaxX(macCurve)) THEN 1 ELSE 0)]
        lookup(price0, price1, effectiveCarbonPrice) ==
            adjust(price0, price1, effectiveCarbonPrice,
                   getMACValue(effectiveCarbonPrice),
                   getMACValue(getMaxX(macCurve)),
                   finalReductionPeriodOf(finalReductionYear, unspecified))
        decay(price0, price1) ==
            lookup(price0, price1, decayedCarbonPrice(period, price1))
        shift(price0) ==
            decay(price0, shiftedCarbonPrice(period, price0, natGasPrice, natGasBasePrice))
    IN  shift(marketCarbonPrice(marketPrice))

(***************************************************************************)
(* XML input.  A node is the sequence of its element children; a child has *)
(* a name and the value XMLHelper reads from it (d: double, i: int,        *)
(* b: bool, s: string) and, for a reduction, its tax attribute.            *)
(***************************************************************************)
Child(name, d, i, b, s, tax) ==
    [name |-> name, d |-> d, i |-> i, b |-> b, s |-> s, tax |-> tax]

DoubleChild(name, d) == Child(name, d, 0, FALSE, "", I(0))

IntChild(name, i) == Child(name, I(0), i, FALSE, "", I(0))

BoolChild(name, b) == Child(name, I(0), 0, b, "", I(0))

StringChild(name, s) == Child(name, I(0), 0, FALSE, s, I(0))

ReductionChild(tax, reduction) == Child("reduction", reduction, 0, FALSE, "", tax)

\* The loop of GhgMAC::XMLParse over the children of the node: `st` holds
\* the data members, the points read so far and the warnings logged.
RECURSIVE parseChildren(_, _)
parseChildren(st, children) ==
    IF children = <<>> THEN st
    ELSE LET curr == Head(children)
             nodeName == curr.name
             next ==
                IF nodeName = "#text" THEN st
                ELSE IF nodeName = "phaseIn" THEN [st EXCEPT !.phaseIn = curr.d]
                ELSE IF nodeName = "costReductionRate"
                     THEN [st EXCEPT !.costReductionRate = curr.d]
                ELSE IF nodeName = "baseCostYear" THEN [st EXCEPT !.baseCostYear = curr.i]
                ELSE IF nodeName = "fuelShiftRange" THEN [st EXCEPT !.fuelShiftRange = curr.d]
                ELSE IF nodeName = "curveShiftFuelName"
                     THEN [st EXCEPT !.curveShiftFuelName = curr.s]
                ELSE IF nodeName = "finalReduction" THEN [st EXCEPT !.finalReduction = curr.d]
                ELSE IF nodeName = "finalReductionYear"
                     THEN [st EXCEPT !.finalReductionYear = curr.i]
                ELSE IF nodeName = "noBelowZero" THEN [st EXCEPT !.noBelowZero = curr.b]
                ELSE IF nodeName = "reduction"
                     THEN [st EXCEPT !.currPoints =
                                        addPoint(@, XYDataPoint(curr.tax, curr.d))]
                ELSE [st EXCEPT !.warnings = @ + 1]
         IN  parseChildren(next, Tail(children))

(***************************************************************************)
(* The inputs of the model.  Reductions are fractions in [0, 1] (0 = none, *)
(* 1 = completely reduced), taxes may be negative.                         *)
(***************************************************************************)
Curve3 == <<ReductionChild(I(200), R(9, 10)), ReductionChild(I(0), I(0)),
            ReductionChild(I(100), R(1, 2))>>

CurveNeg == <<ReductionChild(I(-100), R(1, 10)), ReductionChild(I(0), R(1, 5)),
              ReductionChild(I(100), R(1, 2))>>

Curve1 == <<ReductionChild(I(100), R(1, 2))>>

\* A node that sets every data member.
Document(aPhaseIn, aRate, aBaseCostYear, aShiftRange, aFuel, aFinalReduction, aFinalYear, aNoBelowZero, points) ==
    <<StringChild("#text", ""),
      BoolChild("noBelowZero", aNoBelowZero),
      DoubleChild("fuelShiftRange", aShiftRange),
      StringChild("curveShiftFuelName", aFuel),
      DoubleChild("costReductionRate", aRate),
      IntChild("baseCostYear", aBaseCostYear),
      DoubleChild("phaseIn", aPhaseIn),
      DoubleChild("finalReduction", aFinalReduction),
      IntChild("finalReductionYear", aFinalYear)>> \o points

Nodes ==
    { Curve3,
      <<>>,
      <<DoubleChild("phaseIn", I(2)), StringChild("comment", "")>> \o Curve1,
      Document(I(1), I(0), getper_to_yr(getBasePeriod, 0), I(0), "", I(0),
               getEndYear, TRUE, CurveNeg),
      Document(I(2), I(0), getper_to_yr(getBasePeriod, 0), I(50), "gas", I(0),
               getEndYear, FALSE, Curve3),
      Document(I(1), I(0), getper_to_yr(getBasePeriod, 0), I(-50), "gas", I(0),
               getEndYear, TRUE, Curve1),
      Document(R(1, 2), I(1), getper_to_yr(getBasePeriod, 0), I(0), "", I(1),
               getEndYear, FALSE, Curve3),
      Document(I(1), I(0), StartYear, I(0), "", I(1), 2, FALSE, Curve3),
      Document(I(3), I(1), StartYear, I(50), "gas", I(1),
               StartYear + TimeStep, TRUE, CurveNeg) }

\* Prices of the CO2 market, NO_MARKET_PRICE when it has none.
CarbonPrices == {NO_MARKET_PRICE, I(-50), I(0), I(100), I(150), I(250)}

\* Prices of the curveShiftFuelName market.
FuelPrices == {I(0), I(2), I(4)}

FuelBasePrices == {I(2), I(4)}

\* The reductions adjustTechCh is called with.
Reductions == {I(0), R(1, 2), R(9, 10)}

\* The final reduction periods adjustTechCh is called with.
FinalReductionPeriods == 2..(MaxPeriod + 2)

CostReductionRates == {I(0), I(1), R(-1, 2)}

(***************************************************************************)
(* The state after GhgMAC::GhgMAC().                                       *)
(***************************************************************************)
NoCall ==
    [op |-> "none", period |-> 0, price |-> I(0), natGasPrice |-> I(0),
     natGasBasePrice |-> I(0), fault |-> FALSE, ret |-> I(0),
     carbonPrice |-> I(0), shiftedPrice |-> I(0), effectiveCarbonPrice |-> I(0),
     looked |-> I(0), reduction |-> I(0),
     maxReduction |-> I(0), finalReductionPeriod |-> 0, capApplied |-> FALSE,
     rate |-> I(0), errors |-> 0, warnings |-> 0, clone |-> <<>>]

Init ==
    /\ macCurve = NoCurve
    /\ phaseIn = I(1)
    /\ finalReduction = I(0)
    /\ finalReductionYear = getEndYear
    /\ fuelShiftRange = I(0)
    /\ noBelowZero = FALSE
    /\ baseCostYear = getper_to_yr(getBasePeriod, 0)
    /\ costReductionRate = I(0)
    /\ curveShiftFuelName = ""
    /\ lastCall = NoCall

(***************************************************************************)
(* The operations.  The caller is single threaded: it makes a call, takes  *)
(* its result (Return) and goes on.  The functions that read macCurve are  *)
(* called once the object has been parsed, as its owner does.              *)
(***************************************************************************)

\* GhgMAC::XMLParse( node )
XMLParse(node) ==
    LET st == parseChildren(
                  [phaseIn |-> phaseIn, costReductionRate |-> costReductionRate,
                   baseCostYear |-> baseCostYear, fuelShiftRange |-> fuelShiftRange,
                   curveShiftFuelName |-> curveShiftFuelName,
                   finalReduction |-> finalReduction,
                   finalReductionYear |-> finalReductionYear,
                   noBelowZero |-> noBelowZero,
                   currPoints |-> <<>>, warnings |-> 0], node)
    IN  /\ lastCall = NoCall
        /\ phaseIn' = st.phaseIn
        /\ costReductionRate' = st.costReductionRate
        /\ baseCostYear' = st.baseCostYear
        /\ fuelShiftRange' = st.fuelShiftRange
        /\ curveShiftFuelName' = st.curveShiftFuelName
        /\ finalReduction' = st.finalReduction
        /\ finalReductionYear' = st.finalReductionYear
        /\ noBelowZero' = st.noBelowZero
        /\ macCurve' = st.currPoints
        /\ lastCall' = [NoCall EXCEPT !.op = "XMLParse", !.warnings = st.warnings]

\* GhgMAC::initCalc( ghgName )
InitCalc ==
    /\ lastCall = NoCall
    /\ macCurve # NoCurve
    /\ lastCall' = [NoCall EXCEPT !.op = "initCalc",
                       !.errors = IF dEq(getMaxX(macCurve), NEG_DBL_MAX) THEN 1 ELSE 0]
    /\ UNCHANGED members

\* The record of a findReduction call that computed r.
findReductionCall(period, marketPrice, natGasPrice, natGasBasePrice, r) ==
    [NoCall EXCEPT
        !.op = "findReduction", !.period = period, !.price = marketPrice,
        !.natGasPrice = natGasPrice, !.natGasBasePrice = natGasBasePrice,
        !.fault = r.fault,
        !.ret = IF r.fault THEN I(0) ELSE r.ret,
        !.carbonPrice = r.carbonPrice, !.shiftedPrice = r.shiftedPrice,
        !.looked = r.looked,
        !.effectiveCarbonPrice = r.effectiveCarbonPrice,
        !.reduction = r.reduction, !.maxReduction = r.maxReduction,
        !.finalReductionPeriod = r.finalReductionPeriod,
        !.capApplied = r.capApplied, !.errors = r.errors]

\* GhgMAC::findReduction( regionName, period ): the marketplace gives the
\* CO2 price and, when the fuel shift is on, the fuel's prices at `period`
\* and at period 1 (one and the same price when period is 1).
FindReduction(period, marketPrice, natGasPrice, natGasBasePrice, unspecified, trap) ==
    /\ lastCall = NoCall
    /\ macCurve # NoCurve
    /\ period = 1 => natGasPrice = natGasBasePrice
    /\ lastCall' = findReductionCall(period, marketPrice, natGasPrice, natGasBasePrice,
                        findReduction(period, marketPrice, natGasPrice, natGasBasePrice,
                                      unspecified, trap))
    /\ UNCHANGED members

\* GhgMAC::shiftNatGas( period, regionName, carbonPrice )
ShiftNatGas(period, carbonPrice, natGasPrice, natGasBasePrice) ==
    /\ lastCall = NoCall
    /\ macCurve # NoCurve
    /\ period = 1 => natGasPrice = natGasBasePrice
    /\ lastCall' = [NoCall EXCEPT
            !.op = "shiftNatGas", !.period = period, !.price = carbonPrice,
            !.natGasPrice = natGasPrice, !.natGasBasePrice = natGasBasePrice,
            !.ret = shiftNatGas(period, carbonPrice, natGasPrice, natGasBasePrice)]
    /\ UNCHANGED members

\* GhgMAC::shiftCostReduction( period, costReductionRate )
ShiftCostReduction(period, rate) ==
    /\ lastCall = NoCall
    /\ lastCall' = [NoCall EXCEPT
            !.op = "shiftCostReduction", !.period = period, !.rate = rate,
            !.ret = shiftCostReduction(period, rate)]
    /\ UNCHANGED members

\* GhgMAC::getMACValue( carbonPrice )
GetMACValue(carbonPrice) ==
    /\ lastCall = NoCall
    /\ macCurve # NoCurve
    /\ lastCall' = [NoCall EXCEPT
            !.op = "getMACValue", !.price = carbonPrice,
            !.ret = getMACValue(carbonPrice),
            !.errors = IF getMACValueError(carbonPrice) THEN 1 ELSE 0]
    /\ UNCHANGED members

\* GhgMAC::adjustPhaseIn( period )
AdjustPhaseIn(period) ==
    /\ lastCall = NoCall
    /\ lastCall' = [NoCall EXCEPT
            !.op = "adjustPhaseIn", !.period = period, !.ret = adjustPhaseIn(period)]
    /\ UNCHANGED members

\* The record of an adjustTechCh call that computed r.
adjustTechChCall(period, finalReductionPeriod, maxReduction, r) ==
    [NoCall EXCEPT
        !.op = "adjustTechCh", !.period = period,
        !.finalReductionPeriod = finalReductionPeriod,
        !.maxReduction = maxReduction, !.fault = r.fault,
        !.ret = IF r.fault THEN I(0) ELSE r.val]

\* GhgMAC::adjustTechCh( period, finalReductionPeriod, maxReduction ), under
\* the condition findReduction calls it.
AdjustTechCh(period, finalReductionPeriod, maxReduction, trap) ==
    /\ lastCall = NoCall
    /\ dLt(maxReduction, finalReduction)
    /\ finalReductionPeriod > 1
    /\ lastCall' = adjustTechChCall(period, finalReductionPeriod, maxReduction,
                        adjustTechCh(period, finalReductionPeriod, maxReduction, trap))
    /\ UNCHANGED members

\* GhgMAC::copy( other ): the data members this object takes from other.
copy(other) ==
    [macCurve |-> other.macCurve,
     phaseIn |-> other.phaseIn,
     fuelShiftRange |-> other.fuelShiftRange,
     costReductionRate |-> other.costReductionRate,
     baseCostYear |-> other.baseCostYear,
     finalReduction |-> other.finalReduction,
     finalReductionYear |-> other.finalReductionYear,
     noBelowZero |-> other.noBelowZero,
     curveShiftFuelName |-> other.curveShiftFuelName]

\* The data members of this object.
this ==
    [macCurve |-> macCurve, phaseIn |-> phaseIn, fuelShiftRange |-> fuelShiftRange,
     costReductionRate |-> costReductionRate, baseCostYear |-> baseCostYear,
     finalReduction |-> finalReduction, finalReductionYear |-> finalReductionYear,
     noBelowZero |-> noBelowZero, curveShiftFuelName |-> curveShiftFuelName]

\* GhgMAC::clone(): a new GhgMAC copied from this one, which it only reads.
\* The new object is what the call returns (lastCall.clone).
Clone ==
    /\ lastCall = NoCall
    /\ macCurve # NoCurve
    /\ lastCall' = [NoCall EXCEPT !.op = "clone", !.clone = <<copy(this)>>]
    /\ UNCHANGED members

\* The caller takes the result of the call.
Return ==
    /\ lastCall # NoCall
    /\ lastCall' = NoCall
    /\ UNCHANGED members

Next ==
    \/ Return
    \/ \E node \in Nodes : XMLParse(node)
    \/ InitCalc
    \/ Clone
    \/ \E period \in Periods, marketPrice \in CarbonPrices :
       \E natGasPrice \in (IF dEq(fuelShiftRange, I(0)) THEN {I(0)} ELSE FuelPrices),
          natGasBasePrice \in (IF dEq(fuelShiftRange, I(0)) THEN {I(0)} ELSE FuelBasePrices),
          unspecified \in (IF finalReductionYear \in Periods THEN {0} ELSE UnspecifiedYears) :
       \E trap \in (IF unspecified = 2 /\ period <= 2 THEN BOOLEAN ELSE {FALSE}) :
            FindReduction(period, marketPrice, natGasPrice, natGasBasePrice,
                          unspecified, trap)
    \/ \E period \in Periods, carbonPrice \in CarbonPrices \ {NO_MARKET_PRICE},
          natGasPrice \in FuelPrices, natGasBasePrice \in FuelBasePrices :
            ShiftNatGas(period, carbonPrice, natGasPrice, natGasBasePrice)
    \/ \E period \in Periods, rate \in CostReductionRates :
            ShiftCostReduction(period, rate)
    \/ \E carbonPrice \in CarbonPrices \cup {Inf(1)} : GetMACValue(carbonPrice)
    \/ \E period \in Periods : AdjustPhaseIn(period)
    \/ \E period \in Periods, finalReductionPeriod \in FinalReductionPeriods,
          maxReduction \in Reductions :
       \E trap \in (IF finalReductionPeriod = 2 /\ period <= 2 THEN BOOLEAN ELSE {FALSE}) :
            AdjustTechCh(period, finalReductionPeriod, maxReduction, trap)

Spec == Init /\ [][Next]_vars

(***************************************************************************)
(* The properties.                                                         *)
(***************************************************************************)
IsFindReduction == lastCall.op = "findReduction"

\* The curve {(0,0), (100,0.5), (200,0.9)}.
ScenarioCurve ==
    <<XYDataPoint(I(0), I(0)), XYDataPoint(I(100), R(1, 2)),
      XYDataPoint(I(200), R(9, 10))>>

\* fuelShiftRange = 0, costReductionRate = 0 and finalReduction = 0.
PlainKnobs ==
    /\ dEq(fuelShiftRange, I(0))
    /\ dEq(costReductionRate, I(0))
    /\ dEq(finalReduction, I(0))

\* The result of the call is the curve's value at the carbon price times
\* the phase-in multiplier.
LookupTimesPhaseIn ==
    /\ ~lastCall.fault
    /\ lastCall.ret = dMul(getMACValue(lastCall.carbonPrice), adjustPhaseIn(lastCall.period))

\* The scenario of the specification gives 0.7.
ScenarioGives07 ==
    (/\ IsFindReduction
     /\ macCurve = ScenarioCurve
     /\ PlainKnobs
     /\ dEq(phaseIn, I(1))
     /\ lastCall.price = I(150)
     /\ lastCall.period = 2) => lastCall.ret = R(7, 10)

\* C1 as stated: with fuelShiftRange = 0, costReductionRate = 0 and
\* finalReduction = 0 every findReduction call returns
\* getMACValue(carbon price) * adjustPhaseIn(period), and the scenario
\* gives 0.7.
C1_AsStated ==
    /\ (IsFindReduction /\ PlainKnobs) => LookupTimesPhaseIn
    /\ ScenarioGives07

\* C1 (amended): with fuelShiftRange = 0, costReductionRate = 0 and
\* finalReduction = 0, and with noBelowZero false or the carbon price not
\* negative, every findReduction call returns getMACValue(carbon price) *
\* adjustPhaseIn(period); when noBelowZero is true and the price is
\* negative it returns 0 (times the phase-in multiplier); the scenario
\* gives 0.7.
C1_Composition ==
    /\ (/\ IsFindReduction
        /\ PlainKnobs
        /\ ~(noBelowZero /\ dLt(lastCall.carbonPrice, I(0)))) => LookupTimesPhaseIn
    /\ (/\ IsFindReduction
        /\ PlainKnobs
        /\ noBelowZero
        /\ dLt(lastCall.carbonPrice, I(0))) => (~lastCall.fault /\ IsZero(lastCall.ret))
    /\ ScenarioGives07

\* The scenario has been run, and a call with a phase-in multiplier other
\* than 1 has returned a reduction that is not 0.
C1_Witness ==
    /\ IsFindReduction
    /\ macCurve = ScenarioCurve
    /\ PlainKnobs
    /\ dEq(phaseIn, I(1))
    /\ lastCall.price = I(150)
    /\ lastCall.period = 2
    /\ lastCall.ret = R(7, 10)

\* The fuel price shift as the documentation of shiftNatGas gives it, with
\* NORM_FACTOR = 0.6 and the halves of the convergence factor.
documentedShift(carbonPrice, natGasPrice, natGasBasePrice) ==
    LET priceChangeRatio == IF IsZero(natGasPrice) THEN I(1)
                            ELSE dDiv(natGasBasePrice, natGasPrice)
        minX == getMinX(macCurve)
        maxX == getMaxX(macCurve)
        convergenceFactor ==
            dAdd(R(1, 2), dMul(R(1, 2), dDiv(dSub(maxX, carbonPrice), dSub(maxX, minX))))
        adjustedPrice ==
            dAdd(carbonPrice,
                 dMul(dMul(dMul(R(3, 5), dSub(I(1), priceChangeRatio)), fuelShiftRange),
                      convergenceFactor))
    IN  dMin(dMax(adjustedPrice, minX), maxX)

\* C2: shiftNatGas returns clamp(carbonPrice + 0.6 * (1 - priceChangeRatio)
\* * fuelShiftRange * convergenceFactor, minX, maxX); so when the fuel price
\* differs from its base price, fuelShiftRange is not 0 and the carbon
\* price is strictly inside the curve's domain, the result differs from the
\* carbon price.  Stated for the curves of more than one point.
C2_DocumentedShift ==
    (lastCall.op = "shiftNatGas" /\ dLt(getMinX(macCurve), getMaxX(macCurve))) =>
        /\ lastCall.ret = documentedShift(lastCall.price, lastCall.natGasPrice,
                                          lastCall.natGasBasePrice)
        /\ (/\ ~IsZero(lastCall.natGasPrice)
            /\ lastCall.natGasPrice # lastCall.natGasBasePrice
            /\ ~IsZero(fuelShiftRange)
            /\ dLt(getMinX(macCurve), lastCall.price)
            /\ dLt(lastCall.price, getMaxX(macCurve))) => lastCall.ret # lastCall.price

\* C3: adjustTechCh returns, for finalReductionPeriod > 2, the ramp
\* change * (period - 2) / (finalReductionPeriod - 2) up to the final
\* reduction period (change at that period, strictly between 0 and change
\* for 2 < period < finalReductionPeriod) and change after it.
C3_LinearRamp ==
    (lastCall.op = "adjustTechCh" /\ lastCall.finalReductionPeriod > 2) =>
        LET change == dDiv(lastCall.maxReduction, finalReduction)
            ramp == dDiv(dMul(change, I(lastCall.period - 2)),
                         I(lastCall.finalReductionPeriod - 2))
        IN  /\ ~lastCall.fault
            /\ lastCall.period <= lastCall.finalReductionPeriod => lastCall.ret = ramp
            /\ lastCall.period = lastCall.finalReductionPeriod => lastCall.ret = change
            /\ lastCall.period > lastCall.finalReductionPeriod => lastCall.ret = change

\* C4: the tech-change cap is applied exactly when finalReduction is above
\* getMACValue(curve max x) and the period of the year finalReductionYear is
\* above 1, and that period is the finalReductionPeriod adjustTechCh gets.
C4_YearToPeriod ==
    IsFindReduction =>
        /\ lastCall.finalReductionPeriod = getyr_to_per(finalReductionYear)
        /\ lastCall.capApplied <=>
              (/\ dLt(getMACValue(getMaxX(macCurve)), finalReduction)
               /\ getyr_to_per(finalReductionYear) > 1)

\* C5: no findReduction call ends in a hard failure: every call, also one
\* with the cap active, finalReductionPeriod = 2 and period <= 2, returns a
\* finite value.
C5_NoHardFailure ==
    IsFindReduction => (~lastCall.fault /\ IsFinite(lastCall.ret))

\* C6: on a curve with minX <= maxX the value shiftNatGas returns lies in
\* [minX, maxX].
C6_ShiftWithinDomain ==
    (lastCall.op = "shiftNatGas" /\ dLe(getMinX(macCurve), getMaxX(macCurve))) =>
        /\ dLe(getMinX(macCurve), lastCall.ret)
        /\ dLe(lastCall.ret, getMaxX(macCurve))

\* C7: on a curve that has points, getMACValue(price) for a price at or
\* above the curve's max x is getMACValue(max x), the reduction of the
\* curve's last point.
C7_UpperClamp ==
    (/\ lastCall.op = "getMACValue"
     /\ macCurve # <<>>
     /\ dLe(getMaxX(macCurve), lastCall.price)) =>
        /\ lastCall.ret = getMACValue(getMaxX(macCurve))
        /\ lastCall.ret = macCurve[Len(macCurve)].y

\* getMACValue has been called above the max x of the scenario's curve.
C7_Witness ==
    /\ lastCall.op = "getMACValue"
    /\ macCurve = ScenarioCurve
    /\ lastCall.price = I(250)
    /\ lastCall.ret = R(9, 10)

\* (period - 1) / phaseIn while period - 1 < phaseIn and phaseIn >= 1, else 1,
\* on the numerator and denominator of phaseIn.
PhaseInExpected(period) ==
    IF phaseIn.n >= phaseIn.d /\ (period - 1) * phaseIn.d < phaseIn.n
    THEN Make((period - 1) * phaseIn.d, phaseIn.n, 0)
    ELSE I(1)

\* C8: for phaseIn >= 1 and period >= 1 adjustPhaseIn(period) is
\* (period - 1) / phaseIn while period - 1 < phaseIn (0 at period 1) and 1
\* from then on, it does not decrease with the period and is never above 1;
\* for phaseIn < 1 it is 1 at every period.
C8_PhaseIn ==
    /\ (/\ lastCall.op = "adjustPhaseIn"
        /\ (lastCall.period >= 1 \/ dLt(phaseIn, I(1)))) =>
            lastCall.ret = PhaseInExpected(lastCall.period)
    /\ dLe(I(1), phaseIn) =>
        /\ IsZero(adjustPhaseIn(1))
        /\ \A p \in 1..MaxPeriod, q \in 1..MaxPeriod :
              p <= q => /\ dLe(adjustPhaseIn(p), adjustPhaseIn(q))
                        /\ dLe(adjustPhaseIn(q), I(1))
    /\ dLt(phaseIn, I(1)) => \A p \in Periods : adjustPhaseIn(p) = I(1)

\* adjustPhaseIn has been called in the middle of a phase-in of 3 periods.
C8_Witness ==
    /\ lastCall.op = "adjustPhaseIn"
    /\ phaseIn = I(3)
    /\ lastCall.period = 2
    /\ lastCall.ret = R(1, 3)

\* C9: with noBelowZero true and a negative effective carbon price (after
\* the fuel shift and the decay) findReduction returns 0; with an effective
\* price that is not negative the clause leaves the curve's value alone, and
\* with fuelShiftRange = 0 and no CO2 price the raw reduction is
\* getMACValue(0).
C9_NoBelowZero ==
    IsFindReduction =>
        /\ (noBelowZero /\ dLt(lastCall.effectiveCarbonPrice, I(0))) =>
              (~lastCall.fault /\ IsZero(lastCall.ret))
        /\ ~dLt(lastCall.effectiveCarbonPrice, I(0)) =>
              lastCall.reduction = lastCall.looked
        /\ (IsZero(fuelShiftRange) /\ lastCall.price = NO_MARKET_PRICE) =>
              lastCall.reduction = getMACValue(I(0))

\* C10: when the curve's query returns its failure value (as a curve of no
\* points does), getMACValue returns 0, findReduction completes and returns
\* 0, and initCalc on a curve of no points only logs an error.
C10_FailureGivesZero ==
    /\ (lastCall.op = "getMACValue" /\ lastCall.errors > 0) => IsZero(lastCall.ret)
    /\ (IsFindReduction /\ getMACValueError(lastCall.effectiveCarbonPrice)) =>
          (~lastCall.fault /\ IsZero(lastCall.ret))
    /\ (lastCall.op = "initCalc" /\ macCurve = <<>>) =>
          (lastCall.errors = 1 /\ ~lastCall.fault)

\* The set of points of a curve.
pointsOf(curve) == {curve[i] : i \in 1..Len(curve)}

\* A curve built from calibration points.
BuiltFromPoints == macCurve # NoCurve /\ macCurve # <<>>

\* C11: once the curve has been built from calibration points, no step of
\* the object (findReduction, initCalc, clone, a further XMLParse, also of
\* a node without reduction points, or any other member function) changes
\* the curve's set of points.
C11_CurveImmutable ==
    [][BuiltFromPoints => pointsOf(macCurve') = pointsOf(macCurve)]_vars

IsShiftCostReduction == lastCall.op = "shiftCostReduction"

\* The years from baseCostYear to the year of the period.
elapsedYears(period) == getper_to_yr(period, 0) - baseCostYear

\* 1 / (1 + rate)^years for the rate n/d: d^years / (d + n)^years.
decayExpected(rate, years) == R(rate.d ^ years, (rate.d + rate.n) ^ years)

\* C12: shiftCostReduction returns exactly 1 when the rate is 0, at every
\* period, and when the year of the period minus baseCostYear is not
\* positive; otherwise it returns 1 / (1 + rate)^years, which for a rate
\* above 0 lies strictly between 0 and 1 and is strictly smaller at every
\* period with more elapsed years.
C12_CostDecay ==
    IsShiftCostReduction =>
        LET rate == lastCall.rate
            years == elapsedYears(lastCall.period)
        IN  /\ (dEq(rate, I(0)) \/ years <= 0) => lastCall.ret = I(1)
            /\ (~dEq(rate, I(0)) /\ years > 0) =>
                    lastCall.ret = decayExpected(rate, years)
            /\ (dLt(I(0), rate) /\ years > 0) =>
                    /\ dLt(I(0), lastCall.ret)
                    /\ dLt(lastCall.ret, I(1))
                    /\ \A later \in Periods :
                            elapsedYears(later) > years =>
                                dLt(shiftCostReduction(later, rate), lastCall.ret)

\* A rate of 1 over 5 years halves the price five times: 1/32, with a
\* later period to compare with.
C12_Witness ==
    /\ IsShiftCostReduction
    /\ lastCall.rate = I(1)
    /\ elapsedYears(lastCall.period) = TimeStep
    /\ lastCall.period < MaxPeriod
    /\ lastCall.ret = R(1, 32)

=============================================================================
